---- MODULE Spec2Model ----
(***************************************************************************)
(* A model of the HyperLogLog cardinality estimator (hyperloglog.go) and   *)
(* of its murmur3 hash utilities (murmur.go).                              *)
(*                                                                         *)
(* TLC's integers are 32-bit signed, so a Go uint32 is kept as a pair      *)
(* <<hi, lo>> of 16-bit halves and every operation on it is computed on    *)
(* the halves, modulo 2^32 as in Go.                                       *)
(***************************************************************************)
EXTENDS Integers, Sequences, FiniteSets, TLC

VARIABLES
    hll,        \* slot -> the estimator held by that slot
    seen,       \* slot -> the values the slot's estimator stands for (history)
    last,       \* the last estimator operation and how it ended (history)
    newPc, newArg, newM, newR, newRes,               \* a call of New / getLog
    rhoPc, rhoArg, rhoMax, rhoVal, rhoR, rhoIter,    \* a call of rho
    hashKey, hashReads, hashPc, hashOut,             \* a call of MurmurString
    swX, swY, swPc, swOut                            \* a call of maxSWAR / MergeSWAR

estVars  == <<hll, seen, last>>
newVars  == <<newPc, newArg, newM, newR, newRes>>
rhoVars  == <<rhoPc, rhoArg, rhoMax, rhoVal, rhoR, rhoIter>>
hashVars == <<hashKey, hashReads, hashPc, hashOut>>
swVars   == <<swX, swY, swPc, swOut>>
vars     == <<estVars, newVars, rhoVars, hashVars, swVars>>
notEst   == <<newVars, rhoVars, hashVars, swVars>>
notNew   == <<estVars, rhoVars, hashVars, swVars>>
notRho   == <<estVars, newVars, hashVars, swVars>>
notHash  == <<estVars, newVars, rhoVars, swVars>>
notSw    == <<estVars, newVars, rhoVars, hashVars>>

(***************************************************************************)
(* Machine words.                                                          *)
(***************************************************************************)
Half == 256 * 256                 \* 2^16, the range of one half of a uint32
Byte == 0 .. 255                  \* uint8

U32(hi, lo) == <<hi, lo>>
Zero32 == U32(0, 0)
FromInt(n) == U32(n \div Half, n % Half)        \* n in 0 .. 2^31-1

\* bit i (0 = least significant) of a uint32
Bit(w, i) == IF i >= 16 THEN (w[1] \div 2^(i - 16)) % 2 ELSE (w[2] \div 2^i) % 2

\* val & 0x80000000 == 0
TopBitClear(w) == w[1] < 32768

\* Go's w << n on uint32: bits shifted out are lost, a count >= 32 gives 0
Shl32(w, n) ==
    IF n = 0 THEN w
    ELSE IF n >= 32 THEN Zero32
    ELSE IF n >= 16 THEN U32((w[2] * 2^(n - 16)) % Half, 0)
    ELSE U32(((w[1] * 2^n) % Half) + ((w[2] * 2^n) \div Half), (w[2] * 2^n) % Half)

\* Go's w >> n on uint32: a count >= 32 gives 0
Shr32(w, n) ==
    IF n = 0 THEN w
    ELSE IF n >= 32 THEN Zero32
    ELSE IF n >= 16 THEN U32(0, w[1] \div 2^(n - 16))
    ELSE U32(w[1] \div 2^n, (w[2] \div 2^n) + (w[1] % 2^n) * 2^(16 - n))

RECURSIVE Xor16(_, _)
Xor16(a, b) ==
    IF a = 0 THEN b
    ELSE IF b = 0 THEN a
    ELSE ((a + b) % 2) + 2 * Xor16(a \div 2, b \div 2)

RECURSIVE Or16(_, _)
Or16(a, b) ==
    IF a = 0 THEN b
    ELSE IF b = 0 THEN a
    ELSE (IF a % 2 = 1 \/ b % 2 = 1 THEN 1 ELSE 0) + 2 * Or16(a \div 2, b \div 2)

Xor32(a, b) == U32(Xor16(a[1], b[1]), Xor16(a[2], b[2]))
Or32(a, b)  == U32(Or16(a[1], b[1]), Or16(a[2], b[2]))

\* (x * y) mod 2^16 and (x * y) div 2^16 of two 16-bit halves, without a
\* product above 2^31
MulLo16(x, y) == ((x % 256) * y + (((x \div 256) * y) % 256) * 256) % Half
MulHi16(x, y) == ((x \div 256) * y + ((x % 256) * y) \div 256) \div 256

\* Go's a * b on uint32 (modulo 2^32)
Mul32(a, b) ==
    U32((MulHi16(a[2], b[2]) + MulLo16(a[1], b[2]) + MulLo16(a[2], b[1])) % Half,
        MulLo16(a[2], b[2]))

\* Go's a + b on uint32 (modulo 2^32)
Add32(a, b) ==
    U32((a[1] + b[1] + (a[2] + b[2]) \div Half) % Half, (a[2] + b[2]) % Half)

\* (x << n) | (x >> (32 - n))
Rotl32(w, n) == Or32(Shl32(w, n), Shr32(w, 32 - n))

(***************************************************************************)
(* rho: the position of the leftmost 1-bit.                                *)
(***************************************************************************)
WordBits == 32

\* the loop condition of rho, `r < max` in place of `r <= max`
rhoCondStrict(val, r, max) == TopBitClear(val) /\ r < max

\* for val&0x80000000 == 0 && r <= max
rhoCond(val, r, max) == TopBitClear(val) /\ r <= max

\* r++ on a uint8
rhoIncr(r) == (r + 1) % 256

RECURSIVE rhoLoop(_, _, _)
rhoLoop(val, r, max) ==
    IF rhoCond(val, r, max) THEN rhoLoop(Shl32(val, 1), rhoIncr(r), max) ELSE r

\* rho(val, max), for the arguments on which its loop ends
rho(val, max) == rhoLoop(val, 1, max)

\* The values rho is called on: every single-bit word, its neighbours with
\* the lowest bit or all lower bits set too, and zero.
OneBit(i) == IF i >= 16 THEN U32(2^(i - 16), 0) ELSE U32(0, 2^i)
LowOnes(i) == IF i >= 16 THEN U32(2^(i - 16) - 1, Half - 1) ELSE U32(0, 2^i - 1)
RhoVals ==
    {Zero32} \cup {OneBit(i) : i \in 0 .. 31}
             \cup {Or32(OneBit(i), OneBit(0)) : i \in 0 .. 31}
             \cup {Or32(OneBit(i), LowOnes(i)) : i \in 0 .. 31}
RhoMaxes == 0 .. WordBits

(***************************************************************************)
(* New, getAlpha, getLog.                                                  *)
(***************************************************************************)
\* Go's a & b on int (two's complement; -1 is all ones)
RECURSIVE AndInt(_, _)
AndInt(a, b) ==
    IF a = 0 \/ b = 0 THEN 0
    ELSE IF a = -1 THEN b
    ELSE IF b = -1 THEN a
    ELSE (a % 2) * (b % 2) + 2 * AndInt(a \div 2, b \div 2)

\* if (m & (m - 1)) != 0 { panic(...) }
newRejects(m) == AndInt(m, m - 1) # 0

\* getAlpha, each float64 literal kept as its text
getAlpha(m) ==
    CASE m = 16   -> "0.673102023867666"
      [] m = 32   -> "0.6971226338010241"
      [] m = 64   -> "0.7092084528700233"
      [] m = 128  -> "0.7152711899613394"
      [] m = 256  -> "0.7183076381918139"
      [] m = 512  -> "0.7198271478204001"
      [] m = 1024 -> "0.7205872259764527"
      [] m = 2048 -> "0.720967346136219"
      [] m = 4096 -> "0.7211574265173785"
      [] OTHER    -> "0.721347607152952/(1.0+1.08018007534368/" \o ToString(m) \o ")"

\* the loop of getLog: for m&1 == 0 { r++; m >>= 1 }
getLogCond(m) == m % 2 = 0
getLogR(r) == (r + 1) % 256
getLogM(m) == m \div 2

RECURSIVE getLogLoop(_, _)
getLogLoop(r, m) == IF getLogCond(m) THEN getLogLoop(getLogR(r), getLogM(m)) ELSE r

\* getLog(m), for the m on which its loop ends (m # 0)
getLog(m) == getLogLoop(0, m)

\* &HyperLogLog{registers: make([]uint8, m), alpha: ..., b: ..., m: m};
\* buf names the storage make returned
MakeHLL(m, b, buf) ==
    [registers |-> [i \in 1 .. m |-> 0], alpha |-> getAlpha(m), b |-> b, m |-> m,
     buf |-> buf]

MaxArg == 40
NewArgs == 0 .. MaxArg \cup {100, 512, 1024, 65536}

\* New(m) is entered: the power-of-two check panics or lets m through to
\* the struct literal, whose getLog(m) starts with r := 0
NewCall ==
    /\ newPc = "idle"
    /\ \E m \in NewArgs :
          /\ newArg' = m
          /\ IF newRejects(m)
             THEN newPc' = "panicked" /\ newM' = 0
             ELSE newPc' = "getLog" /\ newM' = m
    /\ newR' = 0
    /\ UNCHANGED <<newRes, notNew>>

\* one iteration of getLog's loop
GetLogStep ==
    /\ newPc = "getLog"
    /\ getLogCond(newM)
    /\ newR' = getLogR(newR)
    /\ newM' = getLogM(newM)
    /\ UNCHANGED <<newPc, newArg, newRes, notNew>>

\* getLog returns r and New returns the estimator
NewReturn ==
    /\ newPc = "getLog"
    /\ ~getLogCond(newM)
    /\ newPc' = "returned"
    /\ newRes' = MakeHLL(newArg, newR, 1)
    /\ UNCHANGED <<newArg, newM, newR, notNew>>

\* New(m), for the m on which getLog ends: the panic or the estimator
New(m, buf) ==
    IF newRejects(m) THEN [err |-> "InvalidParameter"]
    ELSE [err |-> "none", h |-> MakeHLL(m, getLog(m), buf)]

(***************************************************************************)
(* Add, Merge, Reset.                                                      *)
(***************************************************************************)
\* a uint32 used as an index into a slice of length n
InRange(w, n) == w[1] < 32768 /\ w[1] * Half + w[2] < n
Index(w) == w[1] * Half + w[2]

\* Add with the comparison dropped: h.registers[j] = r whatever it held
AddOverwrite(h, val) ==
    LET k == (32 - h.b) % 256
        r == rho(Shl32(val, h.b), k)
        j == Shr32(val, k)
    IN  IF ~InRange(j, Len(h.registers)) THEN [err |-> "IndexOutOfRange", h |-> h]
        ELSE [err |-> "none", h |-> [h EXCEPT !.registers[Index(j) + 1] = r]]

\* Add whose index is taken from the low bits: j := val & (m - 1)
AddLowIndex(h, val) ==
    LET k == (32 - h.b) % 256
        r == rho(Shl32(val, h.b), k)
        j == U32(0, val[2] % h.m)
    IN  IF r > h.registers[Index(j) + 1]
        THEN [err |-> "none", h |-> [h EXCEPT !.registers[Index(j) + 1] = r]]
        ELSE [err |-> "none", h |-> h]

\* h.Add(val): the estimator afterwards, or the panic of an index out of range
AddHLL(h, val) ==
    LET k == (32 - h.b) % 256
        r == rho(Shl32(val, h.b), k)
        j == Shr32(val, k)
    IN  IF ~InRange(j, Len(h.registers)) THEN [err |-> "IndexOutOfRange", h |-> h]
        ELSE IF r > h.registers[Index(j) + 1]
        THEN [err |-> "none", h |-> [h EXCEPT !.registers[Index(j) + 1] = r]]
        ELSE [err |-> "none", h |-> h]

\* Merge without its size check: the loop runs over the registers both have
MergeNoCheck(h, other) ==
    [err |-> "none",
     h |-> [h EXCEPT !.registers =
              [i \in 1 .. h.m |->
                  IF i <= other.m /\ other.registers[i] > h.registers[i]
                  THEN other.registers[i] ELSE h.registers[i]]]]

\* Merge that copies: h.registers[i] = other.registers[i] whatever it held
MergeCopy(h, other) ==
    IF h.m # other.m THEN [err |-> "SizeMismatch", h |-> h]
    ELSE [err |-> "none", h |-> [h EXCEPT !.registers = other.registers]]

\* Merge with the comparison turned round: it keeps the smaller register
MergeMin(h, other) ==
    IF h.m # other.m THEN [err |-> "SizeMismatch", h |-> h]
    ELSE [err |-> "none",
          h |-> [h EXCEPT !.registers =
                   [i \in 1 .. h.m |->
                       IF other.registers[i] < h.registers[i]
                       THEN other.registers[i] ELSE h.registers[i]]]]

\* h.Merge(other): the panic of the size check, or h with every register the
\* larger of the two
MergeHLL(h, other) ==
    IF h.m # other.m THEN [err |-> "SizeMismatch", h |-> h]
    ELSE [err |-> "none",
          h |-> [h EXCEPT !.registers =
                   [i \in 1 .. h.m |->
                       IF other.registers[i] > h.registers[i]
                       THEN other.registers[i] ELSE h.registers[i]]]]

\* The shifts of Count's loop: sum += 1.0 / float64(uint64(1)<<val) for
\* every val of h.registers
CountShifts(h) == {h.registers[i] : i \in 1 .. Len(h.registers)}

\* Reset that makes a new slice instead of zeroing the one it has
ResetRealloc(h) == [h EXCEPT !.registers = [i \in 1 .. h.m |-> 0], !.buf = h.buf + 2]

\* h.Reset(): for i := 0; i < h.m; i++ { h.registers[i] = 0 }
ResetHLL(h) ==
    [h EXCEPT !.registers = [i \in 1 .. Len(h.registers) |-> IF i <= h.m THEN 0 ELSE @[i]]]

Slots == {"A", "B"}
\* the register counts of the estimators: 16 and 32, and 1, which New lets
\* through too (b = 0, so that Add shifts by 32 and the ranks reach 33)
EstSizes == {1, 16, 32}
\* 32-bit values given to Add: 0x00000000, 0x08000000, 0xF0000100 and
\* 0xFFFFFFFF. With b = 4 the first two fall into register 0 (ranks 29 and
\* 1) and the last two into register 15 (ranks 20 and 1); with b = 5 they
\* fall into registers 0, 1, 30 and 31 (ranks 28, 28, 19 and 1); with b = 0
\* all fall into register 0 (ranks 33, 5, 1 and 1).
AddVals == { U32(0, 0), U32(2048, 0), U32(61440, 256), U32(65535, 65535) }


EstInit ==
    /\ \E mA \in EstSizes, mB \in EstSizes :
          hll = [s \in Slots |-> IF s = "A" THEN New(mA, 1).h ELSE New(mB, 2).h]
    /\ seen = [s \in Slots |-> {}]
    /\ last = [op |-> "none", recv |-> "A", arg |-> "A", val |-> Zero32, err |-> "none",
               pre |-> hll]

Add(s, v) ==
    LET res == AddHLL(hll[s], v) IN
    /\ hll' = [hll EXCEPT ![s] = res.h]
    /\ seen' = [seen EXCEPT ![s] = IF res.err = "none" THEN @ \cup {v} ELSE @]
    /\ last' = [op |-> "Add", recv |-> s, arg |-> s, val |-> v, err |-> res.err,
                pre |-> hll]
    /\ UNCHANGED notEst

Merge(s, o) ==
    LET res == MergeHLL(hll[s], hll[o]) IN
    /\ hll' = [hll EXCEPT ![s] = res.h]
    /\ seen' = [seen EXCEPT ![s] = IF res.err = "none" THEN @ \cup seen[o] ELSE @]
    /\ last' = [op |-> "Merge", recv |-> s, arg |-> o, val |-> Zero32, err |-> res.err,
                pre |-> hll]
    /\ UNCHANGED notEst

Reset(s) ==
    /\ hll' = [hll EXCEPT ![s] = ResetHLL(hll[s])]
    /\ seen' = [seen EXCEPT ![s] = {}]
    /\ last' = [op |-> "Reset", recv |-> s, arg |-> s, val |-> Zero32, err |-> "none",
                pre |-> hll]
    /\ UNCHANGED notEst

(***************************************************************************)
(* murmur.go: Murmur32, Murmur64, MurmurString.                            *)
(***************************************************************************)
C1m == U32(52382, 11601)          \* c1 = 0xcc9e2d51
C2m == U32(7047, 13715)           \* c2 = 0x1b873593
Addend == U32(58964, 27492)       \* 0xe6546b64
Fmul1 == U32(34283, 51819)        \* 0x85ebca6b
Fmul2 == U32(49842, 44597)        \* 0xc2b2ae35

\* k *= c1; k = (k << 15) | (k >> (32 - 15)); k *= c2
MixK(k) == Mul32(Rotl32(Mul32(k, C1m), 15), C2m)

\* one 4-byte chunk: h ^= k; h = (h << 13) | (h >> (32 - 13)); h = (h * 5) + 0xe6546b64
MixChunk(h, k) == Add32(Mul32(Rotl32(Xor32(h, MixK(k)), 13), U32(0, 5)), Addend)

\* the remainder: h ^= k, with no rotation of h
MixTail(h, k) == Xor32(h, MixK(k))

\* h ^= length; h ^= h >> 16; h *= 0x85ebca6b; h ^= h >> 13; h *= 0xc2b2ae35; h ^= h >> 16
Finalize(h, length) ==
    LET h0 == Xor32(h, FromInt(length))
        h1 == Mul32(Xor32(h0, Shr32(h0, 16)), Fmul1)
        h2 == Mul32(Xor32(h1, Shr32(h1, 13)), Fmul2)
    IN  Xor32(h2, Shr32(h2, 16))

Murmur32(i) == Finalize(MixChunk(Zero32, i), 4)

\* Murmur64(i), i given as its low and high 32 bits: uint32(i), uint32(i >> 32)
Murmur64(lo, hi) == Finalize(MixChunk(MixChunk(Zero32, lo), hi), 8)

\* binary.LittleEndian.Uint32 of the 4 bytes of key from position p (1-based)
Chunk(key, p) == U32(key[p + 3] * 256 + key[p + 2], key[p + 1] * 256 + key[p])

\* What a read through *(*[]byte)(unsafe.Pointer(sh.Data)) yields.  The
\* conversion takes the bytes of the string for a slice header, so what the
\* slice points at is whatever those bytes name: the read faults, or yields
\* some word, which may or may not be the bytes the string holds there.
Garbage == {U32(0, 0), U32(57005, 48879)}
ReadKinds ==
    {[kind |-> "fault", w |-> Zero32], [kind |-> "bytes", w |-> Zero32]}
        \cup {[kind |-> "word", w |-> g] : g \in Garbage}
BytesRead == [kind |-> "bytes", w |-> Zero32]

\* the word an Advance yields under read kind rd, with the string at p
AdvanceWord(key, p, rd) == IF rd.kind = "bytes" THEN Chunk(key, p) ELSE rd.w

\* the switch over the remainder: k built from tail[2], tail[1], tail[0]
TailWord(key, p, n, rd) ==
    IF rd.kind = "bytes"
    THEN U32(IF n >= 3 THEN key[p + 2] ELSE 0,
             (IF n >= 2 THEN key[p + 1] * 256 ELSE 0) + key[p])
    ELSE U32(IF n >= 3 THEN rd.w[1] % 256 ELSE 0,
             IF n >= 2 THEN rd.w[2] ELSE rd.w[2] % 256)

\* The chunk loop of MurmurString, entered with sh.Len >= 4:
\*   for k := Advance(sh); sh.Len >= 4; k = Advance(sh) { mix k into h }
\* k is the word the last Advance returned, p and len the string header
\* after it, rds the kinds of the reads still to come.
RECURSIVE stringLoop(_, _, _, _, _, _)
stringLoop(key, h, k, p, len, rds) ==
    IF len >= 4
    THEN stringLoop(key, MixChunk(h, k), AdvanceWord(key, p, Head(rds)), p + 4, len - 4,
                    Tail(rds))
    ELSE [h |-> h, p |-> p, len |-> len]

\* MurmurString(key) under the read kinds rds (one for each Advance, then
\* one for the tail slice): the hash, or a fault
MurmurString(key, rds) ==
    LET blen == Len(key)
        nadv == blen \div 4
        st == IF blen >= 4
              THEN stringLoop(key, Zero32, AdvanceWord(key, 1, rds[1]), 5, blen - 4,
                              Tail(rds))
              ELSE [h |-> Zero32, p |-> 1, len |-> blen]
        trd == rds[nadv + 1]
        h == IF st.len \in 1 .. 3
             THEN MixTail(st.h, TailWord(key, st.p, st.len, trd))
             ELSE st.h
    IN  IF \E i \in 1 .. nadv + 1 : rds[i].kind = "fault"
        THEN [err |-> "fault", h |-> Zero32]
        ELSE [err |-> "none", h |-> Finalize(h, blen)]

MaxStrLen == 8
HashBytes == {97, 255}
HashKeys == UNION {[1 .. n -> HashBytes] : n \in 0 .. MaxStrLen}

\* the state after MurmurString(key) ran under the read kinds rds
HashCalled(key, rds) ==
    LET res == MurmurString(key, rds) IN
    /\ hashKey' = key
    /\ hashReads' = rds
    /\ hashOut' = res.h
    /\ hashPc' = IF res.err = "none" THEN "done" ELSE res.err
    /\ UNCHANGED notHash

\* a call of MurmurString whose reads all yield the bytes of the string
MurmurStringCall ==
    /\ hashPc = "idle"
    /\ \E key \in HashKeys :
          HashCalled(key, [i \in 1 .. (Len(key) \div 4) + 1 |-> BytesRead])

\* a call of MurmurString one of whose reads faults or yields another word
MurmurStringStray ==
    /\ hashPc = "idle"
    /\ \E key \in HashKeys :
         \E rds \in [1 .. (Len(key) \div 4) + 1 -> ReadKinds] :
            /\ \E i \in DOMAIN rds : rds[i] # BytesRead
            /\ HashCalled(key, rds)

(***************************************************************************)
(* maxSWAR and MergeSWAR: the branch-free merge.  A uint64 is kept as its  *)
(* 8 bytes, least significant first (binary.LittleEndian), and every       *)
(* operation is the operation on the whole word: borrows and carries run   *)
(* from each byte into the next.                                           *)
(***************************************************************************)
Lanes == 1 .. 8

RECURSIVE And16(_, _)
And16(a, b) ==
    IF a = 0 \/ b = 0 THEN 0
    ELSE (a % 2) * (b % 2) + 2 * And16(a \div 2, b \div 2)

\* the word whose bytes are F(1) .. F(8)
Word(F(_)) == <<F(1), F(2), F(3), F(4), F(5), F(6), F(7), F(8)>>

And64(x, y) == LET F(i) == And16(x[i], y[i]) IN Word(F)
Or64(x, y)  == LET F(i) == Or16(x[i], y[i]) IN Word(F)
Xor64(x, y) == LET F(i) == Xor16(x[i], y[i]) IN Word(F)
Not64(x)    == LET F(i) == 255 - x[i] IN Word(F)

\* bytes i .. 8 of x - y, given the borrow out of the bytes below
RECURSIVE SubFrom(_, _, _, _)
SubFrom(x, y, i, borrow) ==
    IF i > 8 THEN <<>>
    ELSE <<(x[i] - y[i] - borrow) % 256>>
             \o SubFrom(x, y, i + 1, IF x[i] - y[i] - borrow < 0 THEN 1 ELSE 0)

\* x - y on uint64 (modulo 2^64)
Sub64(x, y) == SubFrom(x, y, 1, 0)

\* x >> 7 on uint64
Shr64by7(x) ==
    LET F(i) == (x[i] \div 128) + (IF i < 8 THEN (x[i + 1] % 128) * 2 ELSE 0) IN Word(F)

\* bytes i .. 8 of x * 0xFF, given the carry out of the bytes below
RECURSIVE Mul255From(_, _, _)
Mul255From(x, i, carry) ==
    IF i > 8 THEN <<>>
    ELSE <<(x[i] * 255 + carry) % 256>> \o Mul255From(x, i + 1, (x[i] * 255 + carry) \div 256)

\* x * 0xFF on uint64 (modulo 2^64)
Mul64by255(x) == Mul255From(x, 1, 0)

SignBits == <<128, 128, 128, 128, 128, 128, 128, 128>>      \* 0x8080808080808080

\* maxSWAR with the subtraction done on the unmasked words: a borrow runs
\* from a lane into the next one
maxSWARUnmasked(x, y) ==
    LET d    == Sub64(x, y)
        ge   == And64(Not64(d), SignBits)
        mask == Mul64by255(Shr64by7(ge))
    IN  Or64(And64(x, mask), And64(y, Not64(mask)))

\* maxSWAR(x, y): the byte-wise unsigned maximum of two words.
\*   d    = (x | H) - (y &^ H)      no lane borrows from the next: bit 7 of a
\*                                  lane of d says x's low 7 bits >= y's
\*   ge   = ((x &^ y) | (^(x ^ y) & d)) & H      bit 7 set where x >= y
\*   mask = (ge >> 7) * 0xFF                     0xFF where x >= y, else 0x00
\*   (x & mask) | (y &^ mask)
maxSWAR(x, y) ==
    LET d    == Sub64(Or64(x, SignBits), And64(y, Not64(SignBits)))
        ge   == And64(Or64(And64(x, Not64(y)), And64(Not64(Xor64(x, y)), d)), SignBits)
        mask == Mul64by255(Shr64by7(ge))
    IN  Or64(And64(x, mask), And64(y, Not64(mask)))

\* registers i+1 .. whole of the two arrays, 8 at a time through maxSWAR
RECURSIVE MergeWords(_, _, _, _)
MergeWords(hr, or, i, whole) ==
    IF i >= whole THEN <<>>
    ELSE maxSWAR(SubSeq(hr, i + 1, i + 8), SubSeq(or, i + 1, i + 8))
             \o MergeWords(hr, or, i + 8, whole)

\* MergeSWAR on two register arrays of one length: whole words of 8
\* registers through maxSWAR, the registers after the last whole word one by
\* one as Merge does
MergeSWARRegs(hr, or) ==
    LET n == Len(hr)
        whole == 8 * (n \div 8)
    IN  MergeWords(hr, or, 0, whole)
            \o [i \in 1 .. n - whole |->
                   IF or[whole + i] > hr[whole + i] THEN or[whole + i] ELSE hr[whole + i]]

\* h.MergeSWAR(other)
MergeSWAR(h, other) ==
    IF h.m # other.m THEN [err |-> "SizeMismatch", h |-> h]
    ELSE [err |-> "none", h |-> [h EXCEPT !.registers = MergeSWARRegs(h.registers, other.registers)]]

\* Words given to maxSWAR: one lane runs over given bytes while the other
\* lanes hold a pair of bytes that borrows or carries if anything does.
EdgeBytes == {0, 1, 2, 126, 127, 128, 129, 254, 255}
Fill == {<<0, 255>>, <<255, 0>>, <<128, 127>>, <<7, 7>>}
WordWith(p, a, c) == LET F(i) == IF i = p THEN a ELSE c IN Word(F)
SwarPairs ==
    {<<WordWith(p, a, f[1]), WordWith(p, b, f[2])>> :
        p \in Lanes, a \in EdgeBytes, b \in EdgeBytes, f \in Fill}
    \cup {<<WordWith(4, a, 0), WordWith(4, b, 255)>> : a \in Byte, b \in Byte}

\* Register arrays given to MergeSWAR: every length up to MaxRegs, filled
\* from a pattern of bytes at different offsets and strides.
MaxRegs == 17
Pattern == <<0, 1, 29, 127, 128, 200, 255>>
PatRegs(n, o, st) == [i \in 1 .. n |-> Pattern[((i * st + o) % 7) + 1]]
RegArrays(n) == {PatRegs(n, o, st) : o \in 0 .. 6, st \in 1 .. 2}
SwEst(r) == [MakeHLL(Len(r), 0, 1) EXCEPT !.registers = r]

\* a call of maxSWAR
MaxSWARCall ==
    /\ swPc = "idle"
    /\ \E xy \in SwarPairs :
          /\ swX' = xy[1]
          /\ swY' = xy[2]
          /\ swOut' = maxSWAR(xy[1], xy[2])
    /\ swPc' = "max"
    /\ UNCHANGED notSw

\* a call of MergeSWAR
MergeSWARCall ==
    /\ swPc = "idle"
    /\ \E n \in 0 .. MaxRegs :
         \E x \in RegArrays(n), y \in RegArrays(n) :
            /\ swX' = x
            /\ swY' = y
            /\ swOut' = MergeSWAR(SwEst(x), SwEst(y)).h.registers
    /\ swPc' = "merge"
    /\ UNCHANGED notSw

EstIdle  == hll = <<>> /\ seen = <<>> /\ last = <<>>
NewIdle  == newPc = "idle" /\ newArg = 0 /\ newM = 0 /\ newR = 0 /\ newRes = <<>>
RhoIdle  == rhoPc = "idle" /\ rhoArg = Zero32 /\ rhoMax = 0 /\ rhoVal = Zero32
               /\ rhoR = 0 /\ rhoIter = 0
HashIdle == hashKey = <<>> /\ hashReads = <<>> /\ hashPc = "idle" /\ hashOut = Zero32
SwIdle   == swX = <<>> /\ swY = <<>> /\ swPc = "idle" /\ swOut = <<>>

\* rho is entered: r := 1
RhoCall ==
    /\ rhoPc = "idle"
    /\ \E v \in RhoVals, k \in RhoMaxes :
          /\ rhoArg' = v
          /\ rhoMax' = k
          /\ rhoVal' = v
    /\ rhoR' = 1
    /\ rhoIter' = 0
    /\ rhoPc' = "loop"
    /\ UNCHANGED notRho

\* one iteration of the loop: r++; val <<= 1
RhoStep ==
    /\ rhoPc = "loop"
    /\ rhoCond(rhoVal, rhoR, rhoMax)
    /\ rhoR' = rhoIncr(rhoR)
    /\ rhoVal' = Shl32(rhoVal, 1)
    /\ rhoIter' = rhoIter + 1
    /\ UNCHANGED <<rhoPc, rhoArg, rhoMax, notRho>>

\* the loop condition fails: return r
RhoReturn ==
    /\ rhoPc = "loop"
    /\ ~rhoCond(rhoVal, rhoR, rhoMax)
    /\ rhoPc' = "done"
    /\ UNCHANGED <<rhoArg, rhoMax, rhoVal, rhoR, rhoIter, notRho>>

RhoInit == RhoIdle /\ EstIdle /\ NewIdle /\ HashIdle /\ SwIdle
RhoNext == RhoCall \/ RhoStep \/ RhoReturn
SpecRho == RhoInit /\ [][RhoNext]_vars
\* the call is the only thing running: its loop keeps being scheduled
FairSpecRho == SpecRho /\ WF_vars(RhoStep) /\ WF_vars(RhoReturn)

\* every call of rho with a window of at most 32 bits returns (a property
\* of FairSpecRho)
RhoTerminates == (rhoPc = "loop") ~> (rhoPc = "done")

\* the top k bits of a word hold no set bit
TopClear(w, k) == \A p \in 1 .. k : p <= WordBits => Bit(w, WordBits - p) = 0
\* the 1-based position, from the most significant bit, of the first set bit
FirstSet(w) == CHOOSE p \in 1 .. WordBits : Bit(w, WordBits - p) = 1 /\ TopClear(w, p - 1)

\* C9: rho(val, k) returns the 1-based position from the most significant bit
\* of the first set bit among the top k bits of val, and k + 1 when none of
\* the top k bits is set; the result lies in 1 .. k+1 and the loop runs at
\* most k times.
C9_Rank ==
    /\ rhoPc \in {"loop", "done"} => rhoIter <= rhoMax
    /\ rhoPc = "done" =>
          /\ rhoR \in 1 .. rhoMax + 1
          /\ rhoR = (IF TopClear(rhoArg, rhoMax) THEN rhoMax + 1 ELSE FirstSet(rhoArg))
          /\ rhoR = rho(rhoArg, rhoMax)

\* an all-zero window of width k > 0 has been ranked k + 1
C9_Witness ==
    /\ rhoPc = "done" /\ rhoMax = 28 /\ rhoArg = OneBit(3)
    /\ rhoR = 29 /\ rhoIter = 28

NewInit == NewIdle /\ EstIdle /\ RhoIdle /\ HashIdle /\ SwIdle
NewNext == NewCall \/ GetLogStep \/ NewReturn
SpecNew == NewInit /\ [][NewNext]_vars
\* the call is the only thing running: its loop keeps being scheduled
FairSpecNew == SpecNew /\ WF_vars(GetLogStep) /\ WF_vars(NewReturn)

IsPow2(m) == \E e \in 0 .. 30 : m = 2^e
Log2(m) == CHOOSE e \in 0 .. 30 : m = 2^e
ValidM(m) == IsPow2(m) /\ m >= 16

\* C1: Create(m) is rejected, without producing an estimator, for every m
\* that is not a power of two or is below 16, and returns an estimator with
\* m zeroed registers and b = log2(m) for every power of two m >= 16.
C1_Create ==
    /\ newPc = "getLog" => IsPow2(newArg)
    /\ newPc = "panicked" => ~ValidM(newArg)
    /\ newPc = "returned" =>
          /\ ValidM(newArg)
          /\ newRes.m = newArg
          /\ newRes.b = Log2(newArg)
          /\ newRes.registers = [i \in 1 .. newArg |-> 0]

\* C1, the part that no call hangs: every call of New ends, by a panic or
\* by returning (a property of FairSpecNew).
C1_Returns == (newPc = "getLog") ~> (newPc = "returned")

\* what New does hold to: a call that returns was given a power of two, and
\* the estimator has that many zeroed registers and b = log2(m)
NewReturnsPow2 ==
    newPc = "returned" =>
        /\ IsPow2(newArg)
        /\ newRes.m = newArg
        /\ newRes.b = Log2(newArg)
        /\ newRes.registers = [i \in 1 .. newArg |-> 0]

Init == EstInit /\ NewIdle /\ RhoIdle /\ HashIdle /\ SwIdle
Next ==
    \/ \E s \in Slots, v \in AddVals : Add(s, v)
    \/ \E s \in Slots, o \in Slots : Merge(s, o)
    \/ \E s \in Slots : Reset(s)
Spec == Init /\ [][Next]_vars

(***************************************************************************)
(* The estimator's properties.  last.pre is hll as it was before the last  *)
(* operation, last.recv the receiver and last.arg the argument of Merge.   *)
(***************************************************************************)
Max(a, b) == IF a >= b THEN a ELSE b
ZeroRegs(m) == [i \in 1 .. m |-> 0]
AllZero(h) == \A i \in 1 .. Len(h.registers) : h.registers[i] = 0

\* the number held by the n bits of v from bit lo upwards
RECURSIVE BitsValue(_, _, _)
BitsValue(v, lo, n) ==
    IF n = 0 THEN 0 ELSE Bit(v, lo) + 2 * BitsValue(v, lo + 1, n - 1)

\* the rank of the low k bits of v: the 1-based position of their first set
\* bit counted from bit k-1 downwards, k + 1 when none is set
RankOfLow(v, k) ==
    IF \A i \in 0 .. k - 1 : Bit(v, i) = 0 THEN k + 1
    ELSE k - (CHOOSE i \in 0 .. k - 1 :
                 Bit(v, i) = 1 /\ \A q \in i + 1 .. k - 1 : Bit(v, q) = 0)

\* every order in which the values of a set can be given
Orders(S) ==
    {q \in [1 .. Cardinality(S) -> S] : \A i, j \in 1 .. Cardinality(S) : i # j => q[i] # q[j]}

\* the estimator after the values of a sequence went through Add, in order
RECURSIVE AddSeq(_, _)
AddSeq(h, q) == IF q = <<>> THEN h ELSE AddSeq(AddHLL(h, Head(q)).h, Tail(q))

Fresh(h) == [h EXCEPT !.registers = ZeroRegs(h.m)]

\* C2: Merge between estimators of differing register counts fails with a
\* size mismatch, and the registers, m, b and alpha of both are afterwards
\* what they were before the call.
C2_MergeMismatch ==
    (last.op = "Merge" /\ last.pre[last.recv].m # last.pre[last.arg].m) =>
        /\ last.err = "SizeMismatch"
        /\ hll[last.recv] = last.pre[last.recv]
        /\ hll[last.arg] = last.pre[last.arg]

\* a merge of a 32-register estimator into a 16-register one, neither of
\* them empty, has been rejected
C2_Witness ==
    /\ last.op = "Merge" /\ last.err = "SizeMismatch"
    /\ last.pre[last.recv].m = 16 /\ last.pre[last.arg].m = 32
    /\ ~AllZero(last.pre[last.recv]) /\ ~AllZero(last.pre[last.arg])

\* C3: on estimators of the same m, the receiver's registers after
\* A.Merge(B) are those B would have after B.Merge(A); merging B into A a
\* second time leaves A as the first merge left it; Merge never modifies
\* its argument.
C3_MergeCommIdem ==
    (last.op = "Merge" /\ last.pre[last.recv].m = last.pre[last.arg].m) =>
        /\ last.err = "none"
        /\ hll[last.recv].registers =
               MergeHLL(last.pre[last.arg], last.pre[last.recv]).h.registers
        /\ MergeHLL(hll[last.recv], hll[last.arg]).h = hll[last.recv]
        /\ last.arg # last.recv => hll[last.arg] = last.pre[last.arg]

\* two estimators, each holding a register larger than the other's, have
\* been merged
C3_Witness ==
    /\ last.op = "Merge" /\ last.err = "none" /\ last.arg # last.recv
    /\ \E i \in 1 .. hll[last.recv].m :
          last.pre[last.recv].registers[i] > last.pre[last.arg].registers[i]
    /\ \E i \in 1 .. hll[last.recv].m :
          last.pre[last.recv].registers[i] < last.pre[last.arg].registers[i]

\* C4: an estimator's registers are those of a fresh estimator of the same
\* m that received, through Add and in any order, every value it stands
\* for: the values added to it and, after A.Merge(B), those B stood for too.
\* Merging H into an empty estimator makes its registers equal to H's.
C4_MergeUnion ==
    /\ \A s \in Slots : \A q \in Orders(seen[s]) :
          hll[s].registers = AddSeq(Fresh(hll[s]), q).registers
    /\ (last.op = "Merge" /\ last.err = "none" /\ AllZero(last.pre[last.recv])) =>
          hll[last.recv].registers = hll[last.arg].registers

\* A and B, which received different values, have been merged, and the
\* result differs from both
C4_Witness ==
    /\ last.op = "Merge" /\ last.err = "none"
    /\ hll[last.recv].registers # last.pre[last.recv].registers
    /\ hll[last.recv].registers # last.pre[last.arg].registers
    /\ Cardinality(seen[last.recv]) >= 3
    /\ Cardinality(seen[last.arg]) >= 2

\* C6: Reset leaves every register 0 and nothing else changed: m, b, alpha
\* and the storage of the registers are the ones of construction, so the
\* estimator is the one New(m) made.
C6_Reset ==
    last.op = "Reset" =>
        LET old == last.pre[last.recv] IN
        /\ last.err = "none"
        /\ hll[last.recv] = [old EXCEPT !.registers = ZeroRegs(old.m)]
        /\ hll[last.recv] = MakeHLL(old.m, Log2(old.m), old.buf)
        /\ \A o \in Slots \ {last.recv} : hll[o] = last.pre[o]

\* an estimator holding the ranks of added and merged values has been reset
C6_Witness ==
    /\ last.op = "Reset"
    /\ Cardinality({i \in 1 .. hll[last.recv].m :
                       last.pre[last.recv].registers[i] # 0}) >= 2
    /\ AllZero(hll[last.recv])

\* C7: Add(v) never fails and touches one register: with j the top b bits
\* of v and r the rank of the other 32 - b bits, registers[j] becomes
\* max(registers[j], r); nothing else changes and j is in 0 .. m-1.
C7_Add ==
    last.op = "Add" =>
        LET old == last.pre[last.recv]
            k == 32 - old.b
            j == BitsValue(last.val, k, old.b)
            r == RankOfLow(last.val, k)
        IN  /\ last.err = "none"
            /\ j \in 0 .. old.m - 1
            /\ hll[last.recv] =
                  [old EXCEPT !.registers[j + 1] = Max(old.registers[j + 1], r)]
            /\ \A o \in Slots \ {last.recv} : hll[o] = last.pre[o]

\* 0xF0000100 has been added to a 16-register estimator whose register 15
\* held 1: the register now holds 20
C7_Witness ==
    /\ last.op = "Add" /\ last.val = U32(61440, 256)
    /\ hll[last.recv].m = 16
    /\ last.pre[last.recv].registers[16] = 1
    /\ hll[last.recv].registers[16] = 20

\* C10: every register lies in 0 .. 32 - b + 1, so Count shifts 1 by at
\* most 33 bits, and Add and Merge never lower a register.
C10_RegisterRange ==
    /\ \A s \in Slots : \A i \in 1 .. hll[s].m :
          hll[s].registers[i] \in 0 .. 32 - hll[s].b + 1
    /\ \A s \in Slots : \A sh \in CountShifts(hll[s]) : sh <= 33 /\ sh < 64
    /\ last.op \in {"Add", "Merge"} =>
          \A s \in Slots : \A i \in 1 .. hll[s].m :
              hll[s].registers[i] >= last.pre[s].registers[i]

\* Add has gone over a register that held the largest rank, 32 - b + 1
C10_Witness ==
    /\ last.op = "Add" /\ last.err = "none"
    /\ \E i \in 1 .. hll[last.recv].m :
          /\ last.pre[last.recv].registers[i] = 32 - hll[last.recv].b + 1
          /\ hll[last.recv].registers[i] = 32 - hll[last.recv].b + 1
          /\ rho(Shl32(last.val, hll[last.recv].b), 32 - hll[last.recv].b) = 1
          /\ Index(Shr32(last.val, 32 - hll[last.recv].b)) = i - 1

HashInit == HashIdle /\ EstIdle /\ NewIdle /\ RhoIdle /\ SwIdle
HashNext == MurmurStringCall \/ MurmurStringStray
SpecHash == HashInit /\ [][HashNext]_vars

\* the standard murmur3 32-bit hash (seed 0) of a sequence of bytes
RECURSIVE RefChunks(_, _, _)
RefChunks(key, h, p) ==
    IF p + 3 <= Len(key) THEN RefChunks(key, MixChunk(h, Chunk(key, p)), p + 4) ELSE h
Murmur3Ref(key) ==
    LET n == Len(key)
        p == 4 * (n \div 4) + 1
        h == RefChunks(key, Zero32, 1)
        t == n % 4
        k == U32(IF t >= 3 THEN key[p + 2] ELSE 0,
                 (IF t >= 2 THEN key[p + 1] * 256 ELSE 0) + (IF t >= 1 THEN key[p] ELSE 0))
    IN  Finalize(IF t = 0 THEN h ELSE MixTail(h, k), n)

\* C8: HashString(s) is the standard murmur3 32-bit hash of the bytes of s;
\* a 4-byte string of little-endian value x hashes to HashUint32(x), an
\* 8-byte string of little-endian value x to HashUint64(x).
C8_HashString ==
    hashPc = "done" =>
        /\ hashOut = Murmur3Ref(hashKey)
        /\ Len(hashKey) = 4 => hashOut = Murmur32(Chunk(hashKey, 1))
        /\ Len(hashKey) = 8 => hashOut = Murmur64(Chunk(hashKey, 1), Chunk(hashKey, 5))

\* What MurmurString does compute when its reads yield the bytes of the
\* string: the hash of the string without its last whole 4-byte chunk, with
\* the whole length xored in.
DropChunk(key, p) ==
    [i \in 1 .. Len(key) - 4 |-> IF i < p THEN key[i] ELSE key[i + 4]]
MurmurStringAsBuilt ==
    (hashPc = "done" /\ \A i \in DOMAIN hashReads : hashReads[i].kind = "bytes") =>
        LET n == Len(hashKey)
            kept == IF n < 4 THEN hashKey ELSE DropChunk(hashKey, 4 * (n \div 4) - 3)
            t == n % 4
            p == Len(kept) - t + 1
            h == RefChunks(kept, Zero32, 1)
            k == U32(IF t >= 3 THEN kept[p + 2] ELSE 0,
                     (IF t >= 2 THEN kept[p + 1] * 256 ELSE 0)
                         + (IF t >= 1 THEN kept[p] ELSE 0))
        IN  hashOut = Finalize(IF t = 0 THEN h ELSE MixTail(h, k), n)

SwInit == SwIdle /\ EstIdle /\ NewIdle /\ RhoIdle /\ HashIdle
SwNext == MaxSWARCall \/ MergeSWARCall
SpecSWAR == SwInit /\ [][SwNext]_vars

\* C5: maxSWAR returns in each of the 8 lanes the unsigned maximum of the
\* two bytes of that lane, whatever the other lanes hold, and MergeSWAR
\* leaves the receiver with the register array Merge leaves, the registers
\* beyond a multiple of 8 included.
C5_SWAR ==
    /\ swPc = "max" => \A i \in Lanes : swOut[i] = Max(swX[i], swY[i])
    /\ swPc = "merge" => swOut = MergeHLL(SwEst(swX), SwEst(swY)).h.registers

\* two arrays of 17 registers, each larger than the other somewhere in the
\* whole words and in the register after them, have been merged
C5_Witness ==
    /\ swPc = "merge" /\ Len(swX) = 17
    /\ swX[17] < swY[17] /\ swOut[17] = swY[17]
    /\ \E i \in 1 .. 16 : swX[i] > swY[i] /\ swX[i] >= 128 /\ swY[i] < 128
    /\ \E i \in 1 .. 16 : swX[i] < swY[i] /\ swY[i] - swX[i] = 1
====
